---- MODULE Spec2Model ----
(***************************************************************************)
(* autocc: the /usr/bin/cc helper of src/main.rs.                          *)
(*                                                                         *)
(* Text values (environment values, paths) are sequences of one-character  *)
(* strings, so that split('/'), split(' '), contains, ends_with and        *)
(* starts_with are computed on characters as the Rust code computes them.  *)
(* Option<T> is a sequence of length 0 (None) or 1 (Some).                 *)
(***************************************************************************)
EXTENDS Integers, Sequences, FiniteSets, TLC

VARIABLES
    env,          \* process environment: [CC, LD, PATH] -> Option<text>
    files,        \* absolute paths for which Path::exists() is true
    cwd,          \* current working directory (absolute)
    argv,         \* env::args(): program name followed by the arguments
    pc,           \* position in main
    toolchain,    \* main's Option<Toolchain> (line 119-123)
    envResult,    \* what toolchain_from_environment returned
    fsResult,     \* what toolchain_from_filesystem returned
    reads,        \* trace of env::var names read, in order
    probes,       \* trace of Path::exists() calls: [phase, path], in order
    execReqs,     \* trace of exec requests handed to the OS
    stderr,       \* lines written to standard error
    reexecResult, \* Result returned by reexecute_with_args
    exitStatus    \* Option<exit status> of the process

vars == <<env, files, cwd, argv, pc, toolchain, envResult, fsResult, reads,
          probes, execReqs, stderr, reexecResult, exitStatus>>

----------------------------------------------------------------------------
(* Option *)

None == <<>>

Some(x) == <<x>>

----------------------------------------------------------------------------
(* Text literals of the source *)

Slash == "/"

Space == " "

Colon == ":"

Clang == <<"c","l","a","n","g">>

Gcc == <<"g","c","c">>

DashGccDash == <<"-","g","c","c","-">>

DashGcc == <<"-","g","c","c">>

Lld == <<"l","l","d">>

Ld == <<"l","d">>

LdDot == <<"l","d",".">>

UsrLocalBin == <<"/","u","s","r","/","l","o","c","a","l","/","b","i","n">>

UsrBin == <<"/","u","s","r","/","b","i","n">>

Bin == <<"/","b","i","n">>

\* "/usr/local/bin:/usr/bin:/bin" (line 83)
DefaultPath == UsrLocalBin \o <<Colon>> \o UsrBin \o <<Colon>> \o Bin

\* "/usr/bin/cc" (line 109)
UsrBinCc == UsrBin \o <<"/","c","c">>

----------------------------------------------------------------------------
(* str and Path primitives of the Rust standard library *)

\* str::split(sep): the pieces between separators; "" splits into [""]
RECURSIVE split(_, _)
split(s, sep) ==
    IF \A i \in 1..Len(s) : s[i] # sep
    THEN <<s>>
    ELSE LET i == CHOOSE k \in 1..Len(s) :
                      s[k] = sep /\ \A j \in 1..(k - 1) : s[j] # sep
         IN  <<SubSeq(s, 1, i - 1)>> \o split(SubSeq(s, i + 1, Len(s)), sep)

\* Iterator::last
last(it) == IF it = <<>> THEN None ELSE Some(it[Len(it)])

\* Iterator::next on a fresh iterator
next(it) == IF it = <<>> THEN None ELSE Some(it[1])

\* str::starts_with
starts_with(x, pat) ==
    Len(pat) <= Len(x) /\ SubSeq(x, 1, Len(pat)) = pat

\* str::ends_with
ends_with(x, pat) ==
    Len(pat) <= Len(x) /\ SubSeq(x, Len(x) - Len(pat) + 1, Len(x)) = pat

\* str::contains
contains(x, pat) ==
    \E i \in 1..(Len(x) - Len(pat) + 1) : SubSeq(x, i, i + Len(pat) - 1) = pat

\* Path::parent for paths without trailing separators or "." components:
\* "" and "/" have none, a single relative component has parent "".
parent(p) ==
    IF p = <<>> THEN None
    ELSE IF \A i \in 1..Len(p) : p[i] # Slash THEN Some(<<>>)
    ELSE LET i == CHOOSE k \in 1..Len(p) :
                      p[k] = Slash /\ \A j \in (k + 1)..Len(p) : p[j] # Slash
         IN  IF i = 1
             THEN IF Len(p) = 1 THEN None ELSE Some(<<Slash>>)
             ELSE Some(SubSeq(p, 1, i - 1))

\* Path::join: an absolute right side replaces the left; an empty left side
\* adds no separator
join(dir, name) ==
    IF starts_with(name, <<Slash>>) THEN name
    ELSE IF dir = <<>> THEN name
    ELSE IF dir[Len(dir)] = Slash THEN dir \o name
    ELSE dir \o <<Slash>> \o name

\* Path::exists: a relative path is resolved against the working directory
exists(p) ==
    p # <<>> /\ (IF starts_with(p, <<Slash>>) THEN p ELSE join(cwd, p)) \in files

\* env::split_paths on Unix: split on ':' (an empty value is one empty path)
split_paths(path) == split(path, Colon)

\* env::var(name).ok()
env_var(name) == env[name]

----------------------------------------------------------------------------
(* Toolchain (lines 16-31) *)

GNU(s) == [family |-> "GNU", path |-> s]

LLVM(s) == [family |-> "LLVM", path |-> s]

as_ref(t) == t.path

----------------------------------------------------------------------------
(* The resolvers (lines 33-104) *)

\* Correctly demangle an environment variable into just the binary *name*
\* (lines 34-39): the text after the last '/' of the whole value, up to its
\* first ' '
env_var_without_args(name) ==
    LET var == env_var(name)
    IN  IF var = None THEN None
        ELSE LET comp == last(split(var[1], Slash))
             IN  IF comp = None THEN None
                 ELSE next(split(comp[1], Space))

\* Attempt to find the tool relative to the path given (lines 42-51)
tool_relative_to_path(path, tool) ==
    LET input_path == parent(path)
    IN  IF input_path = None THEN None
        ELSE LET tool_path == join(input_path[1], tool)
             IN  IF exists(tool_path) THEN Some(tool_path) ELSE None

\* The path tool_relative_to_path probes, if it gets as far as probing
tool_relative_probes(path, tool) ==
    LET input_path == parent(path)
    IN  IF input_path = None THEN <<>> ELSE <<join(input_path[1], tool)>>

\* "Query CC var" (lines 56-65): None when the match falls through
query_cc ==
    LET cc == env_var_without_args("CC")
    IN  IF cc = None THEN None
        ELSE IF cc[1] = Clang THEN Some(LLVM(env_var("CC")[1]))
        ELSE IF cc[1] = Gcc THEN Some(GNU(env_var("CC")[1]))
        ELSE IF contains(cc[1], DashGccDash) \/ ends_with(cc[1], DashGcc)
             THEN Some(GNU(env_var("CC")[1]))
        ELSE None

\* "Query LD var" (lines 68-77): the lookup is given ld, the demangled name
query_ld ==
    LET ld == env_var_without_args("LD")
    IN  IF ld = None THEN None
        ELSE IF ld[1] = Lld
             THEN LET t == tool_relative_to_path(ld[1], Clang)
                  IN  IF t = None THEN None ELSE Some(LLVM(t[1]))
        ELSE IF ld[1] = Ld \/ starts_with(ld[1], LdDot)
             THEN LET t == tool_relative_to_path(ld[1], Gcc)
                  IN  IF t = None THEN None ELSE Some(GNU(t[1]))
        ELSE None

\* Paths probed by the LD query
query_ld_probes ==
    LET ld == env_var_without_args("LD")
    IN  IF ld = None THEN <<>>
        ELSE IF ld[1] = Lld THEN tool_relative_probes(ld[1], Clang)
        ELSE IF ld[1] = Ld \/ starts_with(ld[1], LdDot)
             THEN tool_relative_probes(ld[1], Gcc)
        ELSE <<>>

\* A reordering of the probes: LD consulted before CC
toolchain_from_environment_ld_first ==
    IF query_ld # None THEN query_ld ELSE query_cc

\* Try to return the correct toolchain based on the environment (lines 54-80)
toolchain_from_environment ==
    IF query_cc # None THEN query_cc ELSE query_ld

\* env::var calls made by toolchain_from_environment, in order
environment_reads ==
    IF query_cc # None THEN <<"CC", "CC">> ELSE <<"CC", "LD">>

\* exists() calls made by toolchain_from_environment, in order
environment_probes ==
    IF query_cc # None THEN <<>> ELSE query_ld_probes

\* The search list of find_in_path (lines 83-85)
search_list ==
    LET path == IF env_var("PATH") = None THEN DefaultPath ELSE env_var("PATH")[1]
    IN  split_paths(path)

\* A search that keeps the last directory holding the tool, not the first
find_in_path_last(name) ==
    LET cand  == [i \in 1..Len(search_list) |-> join(search_list[i], name)]
        found == SelectSeq(cand, exists)
    IN  last(found)

\* find_in_path (lines 82-95): the first directory of the list, in order,
\* whose join with name exists
find_in_path(name) ==
    LET cand  == [i \in 1..Len(search_list) |-> join(search_list[i], name)]
        found == SelectSeq(cand, exists)
    IN  next(found)

\* exists() calls made by find_in_path: filter_map is lazy, next() stops at
\* the first hit
find_in_path_probes(name) ==
    LET cand == [i \in 1..Len(search_list) |-> join(search_list[i], name)]
        hits == {i \in 1..Len(cand) : exists(cand[i])}
        stop == IF hits = {} THEN Len(cand)
                ELSE CHOOSE i \in hits : \A j \in hits : i <= j
    IN  SubSeq(cand, 1, stop)

\* Check well known filesystem path (lines 98-104)
toolchain_from_filesystem ==
    LET clang == find_in_path(Clang)
    IN  IF clang # None THEN Some(LLVM(clang[1]))
        ELSE LET gcc == find_in_path(Gcc)
             IN  IF gcc = None THEN None ELSE Some(GNU(gcc[1]))

\* exists() calls made by toolchain_from_filesystem, in order
filesystem_probes ==
    IF find_in_path(Clang) # None THEN find_in_path_probes(Clang)
    ELSE find_in_path_probes(Clang) \o find_in_path_probes(Gcc)

\* env::var calls made by toolchain_from_filesystem, in order
filesystem_reads ==
    IF find_in_path(Clang) # None THEN <<"PATH">> ELSE <<"PATH", "PATH">>

----------------------------------------------------------------------------
(* Inputs: the environment, the filesystem and the command line the process *)
(* is started with                                                          *)

MaxArgs == 2

ArgWords == {"-c", "a.c"}

RECURSIVE SeqsUpTo(_, _)
SeqsUpTo(S, n) ==
    IF n = 0 THEN {<<>>}
    ELSE LET shorter == SeqsUpTo(S, n - 1)
         IN  shorter \cup {Append(q, x) : q \in shorter, x \in S}

\* An argument that is not valid Unicode (any byte string may be passed)
NonUnicodeArg == "\\xFF"

\* Command lines: the program name, then up to MaxArgs words, or one
\* argument that is not valid Unicode
ArgvValues ==
    {<<"cc">> \o a : a \in SeqsUpTo(ArgWords, MaxArgs)} \cup {<<"cc", NonUnicodeArg>>}

Tcc == <<"t","c","c">>

CrossGcc == <<"a">> \o DashGcc

CrossGccVer == <<"a">> \o DashGccDash \o <<"9">>

CCDirs == {<<>>, UsrBin \o <<Slash>>}

CCNames == {Clang, Gcc, CrossGcc, CrossGccVer, Tcc}

\* trailing arguments of CC: none, two plain flags, one flag holding a path
CCArgs == {<<>>,
           <<" ","-","O","2"," ","-","g">>,
           <<" ","-","I","/","i","n","c">>}

CCValues ==
    {None, Some(<<>>), Some(<<"/","x">> \o DashGccDash \o <<"9","/">> \o Tcc)}
    \cup {Some(d \o n \o a) : d \in CCDirs, n \in CCNames, a \in CCArgs}

LDNames == {Lld, Ld, LdDot \o Lld, LdDot \o <<"g","o","l","d">>, <<"g","o","l","d">>}

LDValues == {None} \cup {Some(UsrBin \o <<Slash>> \o n) : n \in LDNames}

\* unset (the default list has /usr/bin before /bin), empty, and a list
\* with /bin before /usr/bin
PATHValues == {None, Some(<<>>), Some(Bin \o <<Colon>> \o UsrBin)}

WorkDir == <<"/","w">>

FileUniverse ==
    {join(d, t) : d \in {UsrBin, Bin, WorkDir}, t \in {Clang, Gcc}}

----------------------------------------------------------------------------
(* The process *)

Init ==
    /\ env \in {[CC |-> c, LD |-> l, PATH |-> p] :
                    c \in CCValues, l \in LDValues, p \in PATHValues}
    /\ files \in SUBSET FileUniverse
    /\ cwd = WorkDir
    /\ argv \in ArgvValues
    /\ pc = "main"
    /\ toolchain = None
    /\ envResult = None
    /\ fsResult = None
    /\ reads = <<>>
    /\ probes = <<>>
    /\ execReqs = <<>>
    /\ stderr = <<>>
    /\ reexecResult = None
    /\ exitStatus = None

\* The exists() calls of one resolver, tagged with the resolver making them
probed(phase, paths) ==
    [i \in 1..Len(paths) |-> [phase |-> phase, path |-> paths[i]]]

\* main, line 119: the Environment Resolver runs first
ToolchainFromEnvironment ==
    /\ pc = "main"
    /\ envResult' = toolchain_from_environment
    /\ toolchain' = envResult'
    /\ reads' = reads \o environment_reads
    /\ probes' = probes \o probed("environment", environment_probes)
    /\ pc' = IF envResult' # None THEN "expect" ELSE "filesystem"
    /\ UNCHANGED <<env, files, cwd, argv, fsResult, execReqs, stderr,
                   reexecResult, exitStatus>>

\* main, lines 121-123: the else branch of the if let
ToolchainFromFilesystem ==
    /\ pc = "filesystem"
    /\ fsResult' = toolchain_from_filesystem
    /\ toolchain' = fsResult'
    /\ reads' = reads \o filesystem_reads
    /\ probes' = probes \o probed("filesystem", filesystem_probes)
    /\ pc' = "expect"
    /\ UNCHANGED <<env, files, cwd, argv, envResult, execReqs, stderr,
                   reexecResult, exitStatus>>

\* A main that carries on to the Executor with no toolchain
ExpectNoCheck ==
    /\ pc = "expect"
    /\ toolchain' = IF toolchain = None THEN Some(GNU(UsrBinCc)) ELSE toolchain
    /\ pc' = "reexecute"
    /\ UNCHANGED <<env, files, cwd, argv, envResult, fsResult, reads, probes,
                   execReqs, stderr, reexecResult, exitStatus>>

\* main, line 124: .expect("failed to find compiler") panics on None; a
\* panic of the main thread ends the process with status 101
Expect ==
    /\ pc = "expect"
    /\ IF toolchain = None
       THEN /\ stderr' = Append(stderr, "failed to find compiler")
            /\ exitStatus' = Some(101)
            /\ pc' = "exited"
       ELSE /\ pc' = "reexecute"
            /\ UNCHANGED <<stderr, exitStatus>>
    /\ UNCHANGED <<env, files, cwd, argv, toolchain, envResult, fsResult,
                   reads, probes, execReqs, reexecResult>>

\* A Command built without arg0() and without skip(1)
command_plain(compiler) ==
    [program |-> compiler, arg0 |-> compiler, args |-> argv]

\* The exec request of a Command (lines 108-110)
command(compiler) ==
    [program |-> compiler, arg0 |-> UsrBinCc, args |-> Tail(argv)]

\* reexecute_with_args (lines 107-116), called at line 126.  env::args()
\* panics while it is iterated if an argument is not valid Unicode: the
\* process then ends with status 101 before any exec is requested.
\* Otherwise the operating system decides whether exec succeeds.  On
\* success the process image is replaced and nothing after line 111 runs; on
\* failure exec() returns the io::Error, which is dropped, the command is
\* printed and Ok(()) returned.
ReexecuteWithArgs ==
    /\ pc = "reexecute"
    /\ IF \E k \in 1..Len(argv) : argv[k] = NonUnicodeArg
       THEN /\ stderr' = Append(stderr, "thread main panicked")
            /\ exitStatus' = Some(101)
            /\ pc' = "exited"
            /\ UNCHANGED <<execReqs, reexecResult>>
       ELSE /\ execReqs' = Append(execReqs, command(as_ref(toolchain[1])))
            /\ UNCHANGED exitStatus
            /\ \E ok \in BOOLEAN :
                  IF ok
                  THEN /\ pc' = "replaced"
                       /\ UNCHANGED <<stderr, reexecResult>>
                  ELSE /\ stderr' = Append(stderr, "cmd = ...")
                       /\ reexecResult' = Some("Ok")
                       /\ pc' = "returned"
    /\ UNCHANGED <<env, files, cwd, argv, toolchain, envResult, fsResult,
                   reads, probes>>

\* main, lines 126-127: `?` passes Ok on, and main returns Ok(()), which
\* ends the process with status 0; an Err would end it with status 1
MainReturn ==
    /\ pc = "returned"
    /\ exitStatus' = IF reexecResult = Some("Ok") THEN Some(0) ELSE Some(1)
    /\ IF reexecResult = Some("Ok")
       THEN UNCHANGED stderr
       ELSE stderr' = Append(stderr, "Error: ...")
    /\ pc' = "exited"
    /\ UNCHANGED <<env, files, cwd, argv, toolchain, envResult, fsResult,
                   reads, probes, execReqs, reexecResult>>

Next ==
    \/ ToolchainFromEnvironment
    \/ ToolchainFromFilesystem
    \/ Expect
    \/ ReexecuteWithArgs
    \/ MainReturn

Spec == Init /\ [][Next]_vars

----------------------------------------------------------------------------
(* Vocabulary of the properties *)

\* The resolvers have run (main is past line 123)
Resolved == pc \notin {"main", "filesystem"}

\* The Environment Resolver has returned
EnvDone == pc # "main"

LdExamined == \E i \in 1..Len(reads) : reads[i] = "LD"

FsConsulted == \E i \in 1..Len(reads) : reads[i] = "PATH"

\* Index of the last '/' of v, 0 if there is none
LastSlash(v) ==
    IF \A i \in 1..Len(v) : v[i] # Slash THEN 0
    ELSE CHOOSE i \in 1..Len(v) : v[i] = Slash /\ \A j \in (i + 1)..Len(v) : v[j] # Slash

\* Index of the first ' ' of v after position from, Len(v) + 1 if there is none
FirstSpaceAfter(v, from) ==
    IF \A i \in (from + 1)..Len(v) : v[i] # Space THEN Len(v) + 1
    ELSE CHOOSE i \in (from + 1)..Len(v) :
             v[i] = Space /\ \A j \in (from + 1)..(i - 1) : v[j] # Space

\* The executable of a value "path[ args...]": the text before the first space
Executable(v) == SubSeq(v, 1, FirstSpaceAfter(v, 0) - 1)

\* Its bare name: the final path component of the executable
BareName(v) ==
    LET e == Executable(v) IN SubSeq(e, LastSlash(e) + 1, Len(e))

\* Its directory part, without the final '/'
Directory(v) ==
    LET e == Executable(v) IN SubSeq(e, 1, LastSlash(e) - 1)

\* The name the CC probe acts on: the text after the last '/' of the whole
\* value, up to the first space after it
ProbedName(v) ==
    SubSeq(v, LastSlash(v) + 1, FirstSpaceAfter(v, LastSlash(v)) - 1)

GccPattern(n) == contains(n, DashGccDash) \/ ends_with(n, DashGcc)

\* The CC probe yields a toolchain
CCRecognized ==
    /\ env.CC # None
    /\ LET n == ProbedName(env.CC[1])
       IN  n = Clang \/ n = Gcc \/ GccPattern(n)

----------------------------------------------------------------------------
(* Properties *)

\* C1: whenever CC is "<dir>/clang" optionally followed by a space and any
\* arguments (arguments holding '/' included), the Environment Resolver
\* returns LLVM with the full CC value, whatever LD, PATH and the files are.
C1_DirClangYieldsLLVM ==
    (/\ EnvDone
     /\ env.CC # None
     /\ BareName(env.CC[1]) = Clang
     /\ LastSlash(Executable(env.CC[1])) >= 1)
    => envResult = Some(LLVM(env.CC[1]))

\* C2: whenever the executable named by CC (with or without a directory,
\* with or without trailing arguments) ends in -gcc or contains -gcc-, the
\* Environment Resolver returns GNU with the full CC value.
C2_GccPatternYieldsGNU ==
    (/\ EnvDone
     /\ env.CC # None
     /\ GccPattern(BareName(env.CC[1])))
    => envResult = Some(GNU(env.CC[1]))

\* C3: whenever CC yields nothing and the bare name of LD is lld (resp. ld
\* or ld.*), the one existence check is made on <directory of LD>/clang
\* (resp. gcc) and the result is that path when it exists, nothing otherwise.
C3_SiblingInLdDirectory ==
    (/\ EnvDone
     /\ LdExamined
     /\ env.LD # None
     /\ LET n == BareName(env.LD[1])
        IN  n = Lld \/ n = Ld \/ starts_with(n, LdDot))
    => LET n   == BareName(env.LD[1])
           sib == join(Directory(env.LD[1]), IF n = Lld THEN Clang ELSE Gcc)
       IN  /\ \A i \in 1..Len(probes) :
                 probes[i].phase = "environment" => probes[i].path = sib
           /\ envResult = IF sib \in files
                          THEN Some(IF n = Lld THEN LLVM(sib) ELSE GNU(sib))
                          ELSE None

\* C4: with CC yielding nothing and LD = /usr/bin/ld.lld, the Environment
\* Resolver returns LLVM(/usr/bin/clang) when /usr/bin/clang exists, and
\* otherwise returns nothing and the Filesystem Resolver is consulted.
C4_LdLldYieldsSiblingClang ==
    (/\ EnvDone
     /\ LdExamined
     /\ env.LD = Some(join(UsrBin, LdDot \o Lld)))
    => IF join(UsrBin, Clang) \in files
       THEN envResult = Some(LLVM(join(UsrBin, Clang)))
       ELSE envResult = None /\ (Resolved => FsConsulted)

\* C5: once the Filesystem Resolver has run, its result is LLVM with
\* <first directory of the search list holding clang>/clang if any directory
\* holds clang (gcc in an earlier directory notwithstanding), else GNU with
\* <first directory holding gcc>/gcc if any holds gcc, else nothing.
C5_FilesystemPreferenceOrder ==
    FsConsulted =>
        LET L        == search_list
            Holds(t) == {i \in 1..Len(L) : exists(join(L[i], t))}
            First(t) == CHOOSE i \in Holds(t) : \A j \in Holds(t) : i <= j
        IN  /\ toolchain = fsResult
            /\ fsResult =
                 IF Holds(Clang) # {} THEN Some(LLVM(join(L[First(Clang)], Clang)))
                 ELSE IF Holds(Gcc) # {} THEN Some(GNU(join(L[First(Gcc)], Gcc)))
                 ELSE None

\* C5 witness: gcc sits in an earlier directory than the only clang, and
\* the result is LLVM with the later directory's clang
C5_Witness ==
    /\ FsConsulted
    /\ env.PATH = Some(Bin \o <<Colon>> \o UsrBin)
    /\ join(Bin, Gcc) \in files
    /\ join(Bin, Clang) \notin files
    /\ join(UsrBin, Clang) \in files
    /\ fsResult = Some(LLVM(join(UsrBin, Clang)))

C7_ExecFailureIsFatal ==
    (pc \in {"returned", "exited"} /\ execReqs # <<>>)
    => /\ reexecResult # Some("Ok")
       /\ exitStatus # Some(0)

\* C8: when both resolvers return nothing, no exec is ever requested and
\* the process ends with a non-zero status and the one diagnostic
\* "failed to find compiler".
C8_NoCompilerIsFatal ==
    (FsConsulted /\ Resolved /\ envResult = None /\ fsResult = None)
    => /\ pc \in {"expect", "exited"}
       /\ execReqs = <<>>
       /\ pc = "exited" =>
             /\ exitStatus # None
             /\ exitStatus[1] # 0
             /\ stderr = <<"failed to find compiler">>

\* C8 witness: CC, LD and PATH unset, no compiler in the default
\* directories, and the process has ended
C8_Witness ==
    /\ pc = "exited"
    /\ env.CC = None /\ env.LD = None /\ env.PATH = None
    /\ \A d \in {UsrLocalBin, UsrBin, Bin}, t \in {Clang, Gcc} : join(d, t) \notin files
    /\ join(WorkDir, Clang) \in files
    /\ exitStatus = Some(101)
    /\ execReqs = <<>>

\* C9: every existence check of the Filesystem Resolver is on clang or gcc
\* in a directory of its search list: the directories of PATH when PATH is
\* set and non-empty, and /usr/local/bin, /usr/bin, /bin when PATH is unset
\* or empty.
C9_SearchListIsPathOrDefault ==
    LET dirs == IF env.PATH = None \/ env.PATH = Some(<<>>)
                THEN {UsrLocalBin, UsrBin, Bin}
                ELSE LET P == env.PATH[1]
                     IN  {SubSeq(P, a, b) : a, b \in 1..Len(P)}
                         \cap {d \in {UsrLocalBin, UsrBin, Bin} :
                                  contains(<<Colon>> \o P \o <<Colon>>,
                                           <<Colon>> \o d \o <<Colon>>)}
    IN  \A i \in 1..Len(probes) :
           probes[i].phase = "filesystem" =>
               \E d \in dirs, t \in {Clang, Gcc} :
                   probes[i].path = d \o <<Slash>> \o t

====
